---- MODULE Spec2Model ----
(***************************************************************************)
(* The sampling-and-control loop of eel2.py: the scheduler thread          *)
(* (data_collection_cycle, gather_data, notify_nodemcu,                    *)
(* predict_temperature), the durable CSV log it appends to, the status     *)
(* query get_data that reads the shared state from the web thread, and the *)
(* retention thread cleanup_files.                                         *)
(*                                                                         *)
(* Time is the value of time.time() in whole seconds.  Only blocking calls *)
(* take time: the sampling sleep, a read on the serial link that times     *)
(* out, and the padding sleeps.  Temperatures are integers; means and      *)
(* forecasts are exact rationals [num, den].                               *)
(***************************************************************************)
EXTENDS Integers, Sequences, FiniteSets, TLC

\* ---------------------------------------------------------------- bounds
\* Cycles observed in a run of each scenario (see Scenarios).
HorizonCtl == 2
HorizonHist == 3
HorizonHour == 7
\* Seconds between two samples of a window.  The code sleeps 1 s per tick
\* (time.sleep(1), line 106); the model samples the window at this coarser
\* period, which leaves two ticks in a 600 s window.
TickSecs == 300
\* Cycles observed in a run that follows the retention thread.
HorizonSweep == 1
\* Daily sweeps of the retention thread observed in a run.
MaxSweeps == 63
\* Windows handed to the forecaster on their own: their length and their
\* readings.
MaxSamples == 5
MaxReading == 5

\* ------------------------------------------------------ program constants
TEMP_THRESHOLD == 35
WindowSecs == 600
CycleSecs == 600
HourSecs == 3600
CyclesPerHour == 6
FutureHorizon == 600
SerTimeout == 1
DaySecs == 86400
RetentionDays == 30

THRESHOLD_EXCEEDED == "THRESHOLD_EXCEEDED"
RESET_DEVICE == "RESET_DEVICE"

\* ------------------------------------------------------------ environment
\* What the collaborators may do in a run.  A scenario fixes the readings
\* the sensor can yield, how the serial link can behave when a command is
\* sent, whether the sensor and the file system can fail, whether status
\* queries arrive, and how many cycles are observed.
Scenarios == {"ctl", "hist", "hour", "sweep"}

SensorRange(s) == IF s \in {"hour", "sweep"} THEN {36} ELSE {30, 36}

\* Behaviour of the link on one command: the write raises; the write
\* succeeds and reading the response raises; the read times out (empty
\* response); a non-empty response line arrives.
LinkOutcomes == {"write_err", "read_err", "timeout", "reply"}

LinkRange(s) == IF s = "ctl" THEN LinkOutcomes ELSE {"timeout"}

SensorMayFail(s) == s = "hour"

DiskMayFail(s) == s \in {"hist", "sweep"}

QueriesArrive(s) == s = "hist"

\* The retention thread is followed in the scenario "sweep" only.
SweepsRun(s) == s = "sweep"

\* Age in seconds of the CSV file found at start-up: created by this run, or
\* left by an earlier run some days ago.
CsvAges(s) ==
    IF s = "sweep"
    THEN {0, (RetentionDays - 1) * DaySecs, RetentionDays * DaySecs,
          (RetentionDays + 1) * DaySecs}
    ELSE {0}

Horizon(s) ==
    CASE s = "ctl" -> HorizonCtl
      [] s = "hist" -> HorizonHist
      [] s = "hour" -> HorizonHour
      [] OTHER -> HorizonSweep

\* ------------------------------------------------------------- arithmetic
Abs(n) == IF n < 0 THEN -n ELSE n

RECURSIVE GCD(_, _)
GCD(a, b) == IF b = 0 THEN a ELSE GCD(b, a % b)

\* The rational n/d (d > 0) in lowest terms.
Rat(n, d) ==
    LET g == GCD(Abs(n), d)
    IN  [num |-> n \div g, den |-> d \div g]

Zero == [num |-> 0, den |-> 1]

\* numpy's nan: the mean of an empty array.
NaN == [num |-> 0, den |-> 0]

\* r > TEMP_THRESHOLD (every comparison with nan is false).
Exceeds(r) == r.den > 0 /\ r.num > TEMP_THRESHOLD * r.den

RECURSIVE SumSeq(_)
SumSeq(s) == IF s = <<>> THEN 0 ELSE s[1] + SumSeq(Tail(s))

\* sum of x * y over the points (x, y) = (k - 1, s[k]) of the fit.
RECURSIVE SumXY(_)
SumXY(s) ==
    IF s = <<>> THEN 0
    ELSE (Len(s) - 1) * s[Len(s)] + SumXY(SubSeq(s, 1, Len(s) - 1))

\* np.mean(data): nan on an empty array.
NpMean(data) ==
    IF data = <<>> THEN NaN ELSE Rat(SumSeq(data), Len(data))

\* np.mean(data) if data else 0
MeanOrZero(data) == IF data = <<>> THEN Zero ELSE NpMean(data)

\* f"{r:.2f}": the value in hundredths, rounded to nearest, ties to even.
Fmt2(r) ==
    LET s == 100 * r.num
        fl == s \div r.den
        rem == s - fl * r.den
    IN  IF 2 * rem > r.den THEN fl + 1
        ELSE IF 2 * rem < r.den THEN fl
        ELSE IF fl % 2 = 0 THEN fl ELSE fl + 1

\* LinearRegression().fit(X, y) on the points (k - 1, data[k]) and
\* model.predict([[x]]): the value at x of the least-squares line.  On one
\* sample the centred fit has slope 0 and the sample as intercept.  With n
\* points, x mean (n-1)/2 and Sxx = n(n^2-1)/12, the value is
\*   mean(y) + 3 (2 Sum(x y) - (n-1) Sum(y)) (2 x - n + 1) / (n (n^2-1)).
LineAt(data, x) ==
    LET n == Len(data)
        sy == SumSeq(data)
        sxy == SumXY(data)
    IN  IF n = 1 THEN Rat(data[1], 1)
        ELSE Rat(sy * (n * n - 1)
                   + 3 * (2 * sxy - (n - 1) * sy) * (2 * x - n + 1),
                 n * (n * n - 1))

\* predict_temperature evaluating the line at 600, not at len(data) + 600.
PredictAtHorizon(data) ==
    IF data = <<>> THEN Zero ELSE LineAt(data, FutureHorizon)

\* predict_temperature whose handler returns the mean of the sample.
PredictMeanOnError(data) ==
    IF data = <<>> THEN NpMean(data)
    ELSE LineAt(data, Len(data) + FutureHorizon)

\* predict_temperature(data): the fitted line evaluated at
\* future_point = len(data) + 600.  An empty sample makes fit raise, and
\* the handler returns 0.0.
predict_temperature(data) ==
    IF data = <<>> THEN Zero
    ELSE LineAt(data, Len(data) + FutureHorizon)


\* ------------------------------------------------------------------ state
VARIABLES
    scenario,        \* the environment of this run (never changes)
    now,             \* time.time()
    pc,              \* position of the scheduler thread
    loop_i,          \* iterations of "for _ in range(6)" started this hour
    hour_start,      \* data_collection_cycle locals
    cycle_start,
    cycle_duration,
    elapsed,
    predicted_temp,
    avg_temp,
    start_time,      \* gather_data locals
    temperatures,
    cycle_count,     \* module globals
    sensor_data,
    cycle_data,
    device_active,
    ser_out,         \* the commands written to the serial link, in order
    csv,             \* the rows of CSV_FILE below its header row
    appended,        \* every row handed to writerow by the scheduler
    files,           \* CSV_FILE and LOG_FILE: existence, modification time
    last_call,       \* the most recent call of notify_nodemcu
    cycle_evals,     \* the conditions evaluated since the cycle started
    cycle_sleep,     \* the cycle-level time.sleep of the last padding step
    hour_sleep,      \* the hour-level time.sleep of the last padding step
    ctl_phase,       \* shape of the sequence of evaluated conditions so far
    link_failed,     \* the link has raised an error in this run
    link_seen,       \* the behaviours the link has shown on commands so far
    disk_failed,     \* a durable write has raised in this run
    qpc,             \* position of the status query get_data
    resp,            \* the response get_data is building
    kpc,             \* position of the retention thread cleanup_files
    sweep_now,       \* cleanup_files locals: now, the index of file in the
    file_i,          \*   list, and file_age_days in seconds
    file_age,
    sweeps,          \* daily sweeps completed
    sweep_log,       \* what the current sweep did with each file so far
    sweep_files      \* the files as they were when the current sweep began

sched_vars == <<now, pc, loop_i, hour_start, cycle_start, cycle_duration,
                elapsed, predicted_temp, avg_temp, start_time, temperatures,
                cycle_count, sensor_data, cycle_data, device_active, ser_out,
                csv, appended, last_call, cycle_evals, cycle_sleep, hour_sleep,
                ctl_phase, link_failed, link_seen, disk_failed>>

query_vars == <<qpc, resp>>

sweep_vars == <<kpc, sweep_now, file_i, file_age, sweeps, sweep_log,
                sweep_files>>

vars == <<scenario, files, sched_vars, query_vars, sweep_vars>>

NoCall == [called |-> FALSE, exceeded |-> FALSE, before |-> FALSE,
           link |-> "idle", wrote |-> <<>>, read |-> FALSE, raised |-> FALSE]

NoSleep == [called |-> FALSE, secs |-> 0]

NoResp == [cycle |-> 0, current_avg |-> Zero, latest_predicted |-> Zero,
           history |-> <<>>, truthy |-> FALSE, len_at_start |-> 0,
           count_at_end |-> 0]

\* The two durable files at start-up.  The CSV file is created with its
\* header row when it is missing and kept as it is otherwise; the log file
\* has just received the start-up messages.
FilesAtStart(ages) ==
    {[csv |-> [exists |-> TRUE, mtime |-> 0 - a, header |-> TRUE],
      log |-> [exists |-> TRUE, mtime |-> 0]] : a \in ages}

Init ==
    /\ scenario \in Scenarios
    /\ files \in FilesAtStart(CsvAges(scenario))
    /\ now = 0
    /\ pc = "while"
    /\ loop_i = 0
    /\ hour_start = 0
    /\ cycle_start = 0
    /\ cycle_duration = 0
    /\ elapsed = 0
    /\ predicted_temp = Zero
    /\ avg_temp = Zero
    /\ start_time = 0
    /\ temperatures = <<>>
    /\ cycle_count = 0
    /\ sensor_data = <<>>
    /\ cycle_data = <<>>
    /\ device_active = FALSE
    /\ ser_out = <<>>
    /\ csv = <<>>
    /\ appended = <<>>
    /\ last_call = NoCall
    /\ cycle_evals = <<>>
    /\ cycle_sleep = NoSleep
    /\ hour_sleep = NoSleep
    /\ ctl_phase = "start"
    /\ link_failed = FALSE
    /\ link_seen = {}
    /\ disk_failed = FALSE
    /\ qpc = "idle"
    /\ resp = NoResp
    /\ kpc = "now"
    /\ sweep_now = 0
    /\ file_i = 1
    /\ file_age = 0
    /\ sweeps = 0
    /\ sweep_log = <<>>
    /\ sweep_files = files

\* ------------------------------------------------------------ durable files
\* A message of the logger reaches LOG_FILE through the handler's open
\* stream: it updates the file's modification time while the path exists.
LogWrite(f, t) ==
    IF f.log.exists THEN [f EXCEPT !.log.mtime = t] ELSE f

\* CsvWrite that writes the header row into a file it has to create.
CsvWriteWithHeader(f, t) ==
    [f EXCEPT !.csv = [exists |-> TRUE, mtime |-> t, header |-> TRUE]]

\* open(CSV_FILE, 'a') and writerow: the file is created when missing, and
\* then holds no header row.
CsvWrite(f, t) ==
    [f EXCEPT !.csv = [exists |-> TRUE, mtime |-> t,
                       header |-> f.csv.exists /\ f.csv.header]]

\* ------------------------------------------------------ notify_nodemcu
\* The result of a call that sent cmd, with the flag left at the given value.
Sent(cmd, active, wait) ==
    [active |-> active, wrote |-> <<cmd>>, read |-> TRUE, wait |-> wait,
     raised |-> FALSE]

\* The result of a call that wrote nothing and read nothing.
Silent(active) ==
    [active |-> active, wrote |-> <<>>, read |-> FALSE, wait |-> 0,
     raised |-> FALSE]

\* notify_nodemcu that sets the flag before it writes the command.
NotifyFlagFirst(exceeded, active, link) ==
    IF exceeded /\ ~active THEN
        CASE link = "write_err" -> Silent(TRUE)
          [] link = "read_err" -> Sent(THRESHOLD_EXCEEDED, TRUE, 0)
          [] link = "timeout" -> Sent(THRESHOLD_EXCEEDED, TRUE, SerTimeout)
          [] OTHER -> Sent(THRESHOLD_EXCEEDED, FALSE, 0)
    ELSE IF ~exceeded /\ active THEN
        CASE link = "write_err" -> Silent(FALSE)
          [] link = "timeout" -> Sent(RESET_DEVICE, FALSE, SerTimeout)
          [] OTHER -> Sent(RESET_DEVICE, FALSE, 0)
    ELSE Silent(active)

\* notify_nodemcu without its try statement: an error of the link leaves
\* the call as an exception.
NotifyUnhandled(exceeded, active, link) ==
    IF exceeded /\ ~active THEN
        CASE link = "write_err" -> [Silent(active) EXCEPT !.raised = TRUE]
          [] link = "read_err" ->
                [Sent(THRESHOLD_EXCEEDED, TRUE, 0) EXCEPT !.raised = TRUE]
          [] link = "timeout" -> Sent(THRESHOLD_EXCEEDED, TRUE, SerTimeout)
          [] OTHER -> Sent(THRESHOLD_EXCEEDED, FALSE, 0)
    ELSE IF ~exceeded /\ active THEN
        CASE link = "write_err" -> [Silent(active) EXCEPT !.raised = TRUE]
          [] link = "read_err" ->
                [Sent(RESET_DEVICE, FALSE, 0) EXCEPT !.raised = TRUE]
          [] link = "timeout" -> Sent(RESET_DEVICE, FALSE, SerTimeout)
          [] OTHER -> Sent(RESET_DEVICE, FALSE, 0)
    ELSE Silent(active)

\* notify_nodemcu that ignores the response to THRESHOLD_EXCEEDED.
NotifyIgnoresResponse(exceeded, active, link) ==
    IF exceeded /\ ~active THEN
        CASE link = "write_err" -> Silent(active)
          [] link = "timeout" -> Sent(THRESHOLD_EXCEEDED, TRUE, SerTimeout)
          [] OTHER -> Sent(THRESHOLD_EXCEEDED, TRUE, 0)
    ELSE IF ~exceeded /\ active THEN
        CASE link = "write_err" -> Silent(active)
          [] link = "timeout" -> Sent(RESET_DEVICE, FALSE, SerTimeout)
          [] OTHER -> Sent(RESET_DEVICE, FALSE, 0)
    ELSE Silent(active)

\* notify_nodemcu that sends RESET_DEVICE on every evaluation below the
\* threshold, active or not.
NotifyLevelTriggered(exceeded, active, link) ==
    IF exceeded /\ ~active THEN
        CASE link = "write_err" -> Silent(active)
          [] link = "read_err" -> Sent(THRESHOLD_EXCEEDED, TRUE, 0)
          [] link = "timeout" -> Sent(THRESHOLD_EXCEEDED, TRUE, SerTimeout)
          [] OTHER -> Sent(THRESHOLD_EXCEEDED, FALSE, 0)
    ELSE IF ~exceeded THEN
        CASE link = "write_err" -> Silent(active)
          [] link = "timeout" -> Sent(RESET_DEVICE, FALSE, SerTimeout)
          [] OTHER -> Sent(RESET_DEVICE, FALSE, 0)
    ELSE Silent(active)

\* The effect of one call: the new device_active, the commands that went
\* out on the link, whether the response was read, the seconds spent
\* waiting for it, and whether an exception leaves the call.  An exception
\* raised by write leaves the flag as it was; one raised by readline or
\* decode leaves it as set after the write; the handler catches both.  A
\* non-empty response to THRESHOLD_EXCEEDED sets the flag back to False.
notify_nodemcu(exceeded, active, link) ==
    IF exceeded /\ ~active THEN
        CASE link = "write_err" -> Silent(active)
          [] link = "read_err" -> Sent(THRESHOLD_EXCEEDED, TRUE, 0)
          [] link = "timeout" -> Sent(THRESHOLD_EXCEEDED, TRUE, SerTimeout)
          [] OTHER -> Sent(THRESHOLD_EXCEEDED, FALSE, 0)
    ELSE IF ~exceeded /\ active THEN
        CASE link = "write_err" -> Silent(active)
          [] link = "timeout" -> Sent(RESET_DEVICE, FALSE, SerTimeout)
          [] OTHER -> Sent(RESET_DEVICE, FALSE, 0)
    ELSE Silent(active)

\* The link is used by a call only when a command is due.
LinkUse(exceeded, active) ==
    IF exceeded # active THEN LinkRange(scenario) ELSE {"idle"}

\* Shape of the conditions evaluated so far: "low" while all were false,
\* "high" in the first stretch of true ones, "back" once false again,
\* "other" for every other sequence.
NextPhase(phase, exceeded) ==
    CASE phase = "start" -> IF exceeded THEN "other" ELSE "low"
      [] phase = "low" -> IF exceeded THEN "high" ELSE "low"
      [] phase = "high" -> IF exceeded THEN "high" ELSE "back"
      [] phase = "back" -> IF exceeded THEN "other" ELSE "back"
      [] OTHER -> "other"

\* One evaluation of the controller by the scheduler, followed by a sleep
\* of the given seconds: the call, the record of it, and where the thread
\* goes on when the call returns and when it raises.
Evaluate(exceeded, link, sleep, on_return, on_raise) ==
    LET r == notify_nodemcu(exceeded, device_active, link)
    IN  /\ device_active' = r.active
        /\ ser_out' = ser_out \o r.wrote
        /\ now' = now + r.wait + (IF r.raised THEN 0 ELSE sleep)
        /\ pc' = IF r.raised THEN on_raise ELSE on_return
        /\ last_call' = [called |-> TRUE, exceeded |-> exceeded,
                         before |-> device_active, link |-> link,
                         wrote |-> r.wrote, read |-> r.read,
                         raised |-> r.raised]
        /\ cycle_evals' = Append(cycle_evals, exceeded)
        /\ files' = IF exceeded \/ link # "idle"
                     THEN LogWrite(files, now) ELSE files
        /\ ctl_phase' = NextPhase(ctl_phase, exceeded)
        /\ link_failed' = (link_failed \/ link \in {"write_err", "read_err"})
        /\ link_seen' = link_seen \cup (LinkOutcomes \cap {link})

\* ------------------------------------------------- data_collection_cycle
\* while running: hour_start = time.time()
HourStart ==
    /\ pc = "while"
    /\ hour_start' = now
    /\ loop_i' = 0
    /\ pc' = "for"
    /\ UNCHANGED <<scenario, files, now, cycle_start, cycle_duration, elapsed,
                   predicted_temp, avg_temp, start_time, temperatures,
                   cycle_count, sensor_data, cycle_data, device_active,
                   ser_out, csv, appended, last_call, cycle_evals,
                   cycle_sleep, hour_sleep, ctl_phase, link_failed, link_seen,
                   disk_failed, query_vars, sweep_vars>>

\* NextCycleCount counting in twos.
NextCycleCountSkipping(c) == c + 2

\* cycle_count += 1
NextCycleCount(c) == c + 1

\* for _ in range(6): cycle_count += 1; cycle_start = time.time(); and the
\* entry of gather_data: temperatures = []; start_time = time.time().
CycleStart ==
    /\ pc = "for"
    /\ loop_i < CyclesPerHour
    /\ cycle_count < Horizon(scenario)
    /\ loop_i' = loop_i + 1
    /\ cycle_count' = NextCycleCount(cycle_count)
    /\ cycle_start' = now
    /\ temperatures' = <<>>
    /\ start_time' = now
    /\ cycle_evals' = <<>>
    /\ files' = LogWrite(files, now)
    /\ pc' = "sample"
    /\ UNCHANGED <<scenario, now, hour_start, cycle_duration, elapsed,
                   predicted_temp, avg_temp, sensor_data, cycle_data,
                   device_active, ser_out, csv, appended, last_call,
                   cycle_sleep, hour_sleep, ctl_phase, link_failed, link_seen,
                   disk_failed, query_vars, sweep_vars>>

\* ------------------------------------------------------------ gather_data
InWindow == now - start_time < WindowSecs

\* One iteration of the sampling loop with a reading t: the reading joins
\* the window, the controller is evaluated on it, and the thread sleeps.
SampleTick ==
    /\ pc = "sample"
    /\ InWindow
    /\ \E t \in SensorRange(scenario) :
         \E link \in LinkUse(t > TEMP_THRESHOLD, device_active) :
            /\ temperatures' = Append(temperatures, t)
            /\ Evaluate(t > TEMP_THRESHOLD, link, TickSecs,
                        "sample", "summary")
    /\ UNCHANGED <<scenario, loop_i, hour_start, cycle_start, cycle_duration,
                   elapsed, predicted_temp, avg_temp, start_time, cycle_count,
                   sensor_data, cycle_data, csv, appended, cycle_sleep,
                   hour_sleep, disk_failed, query_vars, sweep_vars>>

\* sensor.pixels raises.  The try statement encloses the whole while loop,
\* so the handler logs the fault and control continues after the loop.
SensorFault ==
    /\ pc = "sample"
    /\ InWindow
    /\ SensorMayFail(scenario)
    /\ files' = LogWrite(files, now)
    /\ pc' = "summary"
    /\ UNCHANGED <<scenario, now, loop_i, hour_start, cycle_start,
                   cycle_duration, elapsed, predicted_temp, avg_temp,
                   start_time, temperatures, cycle_count, sensor_data,
                   cycle_data, device_active, ser_out, csv, appended,
                   last_call, cycle_evals, cycle_sleep, hour_sleep, ctl_phase,
                   link_failed, link_seen, disk_failed, query_vars,
                   sweep_vars>>

\* The loop condition is false: the window is over.
WindowEnd ==
    /\ pc = "sample"
    /\ ~InWindow
    /\ pc' = "summary"
    /\ UNCHANGED <<scenario, files, now, loop_i, hour_start, cycle_start,
                   cycle_duration, elapsed, predicted_temp, avg_temp,
                   start_time, temperatures, cycle_count, sensor_data,
                   cycle_data, device_active, ser_out, csv, appended,
                   last_call, cycle_evals, cycle_sleep, hour_sleep, ctl_phase,
                   link_failed, link_seen, disk_failed, query_vars,
                   sweep_vars>>

\* WindowRow with the breach flag taken from the last sample of the window.
WindowRowBreachOnLast ==
    <<now, cycle_count, Fmt2(MeanOrZero(temperatures)), <<>>,
      IF temperatures # <<>> /\ temperatures[Len(temperatures)] > TEMP_THRESHOLD
      THEN "Yes" ELSE "No">>

\* The row gather_data appends for the window: timestamp, cycle, average,
\* empty prediction, breach flag.
WindowRow ==
    LET avg == MeanOrZero(temperatures)
    IN  <<now, cycle_count, Fmt2(avg), <<>>,
          IF Exceeds(avg) THEN "Yes" ELSE "No">>

\* The window's row is appended and gather_data returns.
WindowWrite ==
    /\ pc = "summary"
    /\ csv' = Append(csv, WindowRow)
    /\ appended' = Append(appended, WindowRow)
    /\ files' = CsvWrite(files, now)
    /\ pc' = "assign"
    /\ UNCHANGED <<scenario, now, loop_i, hour_start, cycle_start,
                   cycle_duration, elapsed, predicted_temp, avg_temp,
                   start_time, temperatures, cycle_count, sensor_data,
                   cycle_data, device_active, ser_out, last_call, cycle_evals,
                   cycle_sleep, hour_sleep, ctl_phase, link_failed, link_seen,
                   disk_failed, query_vars, sweep_vars>>

\* open(CSV_FILE, 'a') or writerow raises in gather_data.  Neither
\* gather_data nor data_collection_cycle handles the exception, so the
\* thread's target function is left and the thread ends.
WindowWriteFail ==
    /\ pc = "summary"
    /\ DiskMayFail(scenario)
    /\ disk_failed' = TRUE
    /\ pc' = "dead"
    /\ UNCHANGED <<scenario, files, now, loop_i, hour_start, cycle_start,
                   cycle_duration, elapsed, predicted_temp, avg_temp,
                   start_time, temperatures, cycle_count, sensor_data,
                   cycle_data, device_active, ser_out, csv, appended,
                   last_call, cycle_evals, cycle_sleep, hour_sleep, ctl_phase,
                   link_failed, link_seen, query_vars, sweep_vars>>

\* ----------------------------------------- data_collection_cycle, go on
\* sensor_data = temp_data
AssignSensorData ==
    /\ pc = "assign"
    /\ sensor_data' = temperatures
    /\ pc' = "record"
    /\ UNCHANGED <<scenario, files, now, loop_i, hour_start, cycle_start,
                   cycle_duration, elapsed, predicted_temp, avg_temp,
                   start_time, temperatures, cycle_count, cycle_data,
                   device_active, ser_out, csv, appended, last_call,
                   cycle_evals, cycle_sleep, hour_sleep, ctl_phase,
                   link_failed, link_seen, disk_failed, query_vars,
                   sweep_vars>>

\* CycleRecord numbering the cycle within its hour.
CycleRecordInHour(data) ==
    [cycle |-> loop_i, avg_temp |-> MeanOrZero(data),
     predicted_temp |-> predict_temperature(data)]

\* The record appended to cycle_data.
CycleRecord(data) ==
    [cycle |-> cycle_count, avg_temp |-> MeanOrZero(data),
     predicted_temp |-> predict_temperature(data)]

\* predicted_temp = predict_temperature(temp_data); avg_temp = ...;
\* cycle_data.append({...})
AppendRecord ==
    /\ pc = "record"
    /\ predicted_temp' = predict_temperature(temperatures)
    /\ avg_temp' = MeanOrZero(temperatures)
    /\ cycle_data' = Append(cycle_data, CycleRecord(temperatures))
    /\ files' = LogWrite(files, now)
    /\ pc' = "log"
    /\ UNCHANGED <<scenario, now, loop_i, hour_start, cycle_start,
                   cycle_duration, elapsed, start_time, temperatures,
                   cycle_count, sensor_data, device_active, ser_out, csv,
                   appended, last_call, cycle_evals, cycle_sleep, hour_sleep,
                   ctl_phase, link_failed, link_seen, disk_failed, query_vars,
                   sweep_vars>>

\* The row appended for the completed cycle: timestamp, cycle, average,
\* prediction, empty breach flag.
CycleRow == <<now, cycle_count, Fmt2(avg_temp), <<Fmt2(predicted_temp)>>, "">>

CycleWrite ==
    /\ pc = "log"
    /\ csv' = Append(csv, CycleRow)
    /\ appended' = Append(appended, CycleRow)
    /\ files' = CsvWrite(files, now)
    /\ pc' = "evaluate"
    /\ UNCHANGED <<scenario, now, loop_i, hour_start, cycle_start,
                   cycle_duration, elapsed, predicted_temp, avg_temp,
                   start_time, temperatures, cycle_count, sensor_data,
                   cycle_data, device_active, ser_out, last_call, cycle_evals,
                   cycle_sleep, hour_sleep, ctl_phase, link_failed, link_seen,
                   disk_failed, query_vars, sweep_vars>>

\* open(CSV_FILE, 'a') or writerow raises in data_collection_cycle: the
\* thread ends, as in gather_data.
CycleWriteFail ==
    /\ pc = "log"
    /\ DiskMayFail(scenario)
    /\ disk_failed' = TRUE
    /\ pc' = "dead"
    /\ UNCHANGED <<scenario, files, now, loop_i, hour_start, cycle_start,
                   cycle_duration, elapsed, predicted_temp, avg_temp,
                   start_time, temperatures, cycle_count, sensor_data,
                   cycle_data, device_active, ser_out, csv, appended,
                   last_call, cycle_evals, cycle_sleep, hour_sleep, ctl_phase,
                   link_failed, link_seen, query_vars, sweep_vars>>

\* CycleCondition on the average of the window.
CycleConditionOnAverage == Exceeds(avg_temp)

\* predicted_temp > TEMP_THRESHOLD
CycleCondition == Exceeds(predicted_temp)

\* The controller is evaluated on the prediction.  An exception leaving
\* notify_nodemcu here would end the thread.
CycleEvaluate ==
    /\ pc = "evaluate"
    /\ \E link \in LinkUse(CycleCondition, device_active) :
         Evaluate(CycleCondition, link, 0, "pad", "dead")
    /\ UNCHANGED <<scenario, loop_i, hour_start, cycle_start, cycle_duration,
                   elapsed, predicted_temp, avg_temp, start_time,
                   temperatures, cycle_count, sensor_data, cycle_data, csv,
                   appended, cycle_sleep, hour_sleep, disk_failed, query_vars,
                   sweep_vars>>

\* CyclePadding without the test of the duration.
CyclePaddingUnguarded(d) == [called |-> TRUE, secs |-> CycleSecs - d]

\* The padding of a cycle that has lasted d seconds: the sleep made, if any.
CyclePadding(d) ==
    IF d < CycleSecs THEN [called |-> TRUE, secs |-> CycleSecs - d]
    ELSE NoSleep

\* cycle_duration = time.time() - cycle_start; the padding sleep; the next
\* iteration of the for loop.
CyclePad ==
    /\ pc = "pad"
    /\ cycle_duration' = now - cycle_start
    /\ cycle_sleep' = CyclePadding(now - cycle_start)
    /\ now' = now + cycle_sleep'.secs
    /\ pc' = "for"
    /\ UNCHANGED <<scenario, files, loop_i, hour_start, cycle_start, elapsed,
                   predicted_temp, avg_temp, start_time, temperatures,
                   cycle_count, sensor_data, cycle_data, device_active,
                   ser_out, csv, appended, last_call, cycle_evals, hour_sleep,
                   ctl_phase, link_failed, link_seen, disk_failed, query_vars,
                   sweep_vars>>

\* HourPadding without the test of the elapsed time.
HourPaddingUnguarded(e) == [called |-> TRUE, secs |-> HourSecs - e]

\* The padding of an hour that has lasted e seconds.
HourPadding(e) ==
    IF e < HourSecs THEN [called |-> TRUE, secs |-> HourSecs - e]
    ELSE NoSleep

\* The for loop is exhausted: elapsed = time.time() - hour_start; the
\* padding sleep; back to the while.
HourPad ==
    /\ pc = "for"
    /\ ~(loop_i < CyclesPerHour)
    /\ elapsed' = now - hour_start
    /\ hour_sleep' = HourPadding(now - hour_start)
    /\ now' = now + hour_sleep'.secs
    /\ pc' = "while"
    /\ UNCHANGED <<scenario, files, loop_i, hour_start, cycle_start,
                   cycle_duration, predicted_temp, avg_temp, start_time,
                   temperatures, cycle_count, sensor_data, cycle_data,
                   device_active, ser_out, csv, appended, last_call,
                   cycle_evals, cycle_sleep, ctl_phase, link_failed,
                   link_seen, disk_failed, query_vars, sweep_vars>>


\* --------------------------------------------------------------- get_data
\* The handler builds the response dictionary entry by entry, reading the
\* module globals as it goes, while the scheduler thread runs; jsonify then
\* serialises the dictionary, whose 'history' is the list cycle_data itself.

\* 'cycle': cycle_count
QueryCycle ==
    /\ QueriesArrive(scenario)
    /\ qpc \in {"idle", "done"}
    /\ resp' = [NoResp EXCEPT !.cycle = cycle_count,
                              !.len_at_start = Len(cycle_data)]
    /\ qpc' = "avg_test"
    /\ UNCHANGED <<scenario, files, sched_vars, sweep_vars>>

\* 'current_avg': ... if sensor_data else 0 -- the test of the conditional.
QueryAvgTest ==
    /\ qpc = "avg_test"
    /\ resp' = [resp EXCEPT !.truthy = (sensor_data # <<>>)]
    /\ qpc' = "avg"
    /\ UNCHANGED <<scenario, files, sched_vars, sweep_vars>>

\* 'current_avg': np.mean(sensor_data) on a second read of the global, or 0.
QueryAvg ==
    /\ qpc = "avg"
    /\ resp' = [resp EXCEPT !.current_avg =
                    IF resp.truthy THEN NpMean(sensor_data) ELSE Zero]
    /\ qpc' = "predicted"
    /\ UNCHANGED <<scenario, files, sched_vars, sweep_vars>>

\* LatestPredicted reading the first record, cycle_data[0].
FirstPredicted(history) ==
    IF history # <<>> THEN history[1].predicted_temp ELSE Zero

\* cycle_data[-1]['predicted_temp'] if cycle_data else 0
LatestPredicted(history) ==
    IF history # <<>> THEN history[Len(history)].predicted_temp ELSE Zero

\* 'latest_predicted': the list only grows, so its two reads agree.
QueryPredicted ==
    /\ qpc = "predicted"
    /\ resp' = [resp EXCEPT !.latest_predicted = LatestPredicted(cycle_data)]
    /\ qpc' = "history"
    /\ UNCHANGED <<scenario, files, sched_vars, sweep_vars>>

\* 'history': cycle_data, as serialised by jsonify.
QueryHistory ==
    /\ qpc = "history"
    /\ resp' = [resp EXCEPT !.history = cycle_data,
                            !.count_at_end = cycle_count]
    /\ qpc' = "done"
    /\ UNCHANGED <<scenario, files, sched_vars, sweep_vars>>

\* ---------------------------------------------------------- cleanup_files
DurableFiles == <<"csv", "log">>

\* file_age_days > 30, on the age in seconds.
TooOld(age) == age > RetentionDays * DaySecs

\* The sweep goes on to the next file of the list, noting what it did.
NextFile(f, outcome) ==
    /\ file_i' = file_i + 1
    /\ sweep_log' = Append(sweep_log, [file |-> f, outcome |-> outcome])
    /\ kpc' = "exists"

\* while True: now = time.time()
SweepStart ==
    /\ SweepsRun(scenario)
    /\ kpc = "now"
    /\ sweeps < MaxSweeps
    /\ sweep_now' = now
    /\ file_i' = 1
    /\ sweep_log' = <<>>
    /\ sweep_files' = files
    /\ kpc' = "exists"
    /\ UNCHANGED <<scenario, files, sched_vars, query_vars, file_age, sweeps>>

\* if os.path.exists(file)
SweepExists ==
    /\ kpc = "exists"
    /\ file_i <= Len(DurableFiles)
    /\ IF files[DurableFiles[file_i]].exists
       THEN kpc' = "mtime" /\ UNCHANGED <<file_i, sweep_log>>
       ELSE NextFile(DurableFiles[file_i], "absent")
    /\ UNCHANGED <<scenario, files, sched_vars, query_vars, sweep_now,
                   file_age, sweeps, sweep_files>>

\* file_age_days = (now - os.path.getmtime(file)) / 86400 and its test.
SweepAge ==
    /\ kpc = "mtime"
    /\ file_age' = sweep_now - files[DurableFiles[file_i]].mtime
    /\ IF TooOld(file_age')
       THEN kpc' = "remove" /\ UNCHANGED <<file_i, sweep_log>>
       ELSE NextFile(DurableFiles[file_i], "kept")
    /\ UNCHANGED <<scenario, files, sched_vars, query_vars, sweep_now, sweeps,
                   sweep_files>>

\* os.remove(file) succeeds and the deletion is logged.  The rows of a
\* deleted CSV file are gone.
SweepRemove ==
    /\ kpc = "remove"
    /\ files' = LogWrite([files EXCEPT ![DurableFiles[file_i]].exists = FALSE],
                         now)
    /\ csv' = IF DurableFiles[file_i] = "csv" THEN <<>> ELSE csv
    /\ NextFile(DurableFiles[file_i], "removed")
    /\ UNCHANGED <<scenario, now, pc, loop_i, hour_start, cycle_start,
                   cycle_duration, elapsed, predicted_temp, avg_temp,
                   start_time, temperatures, cycle_count, sensor_data,
                   cycle_data, device_active, ser_out, appended, last_call,
                   cycle_evals, cycle_sleep, hour_sleep, ctl_phase,
                   link_failed, link_seen, disk_failed, query_vars, sweep_now,
                   file_age, sweeps, sweep_files>>

\* os.remove(file) raises: the handler logs the error and the loop goes on.
SweepRemoveFail ==
    /\ kpc = "remove"
    /\ files' = LogWrite(files, now)
    /\ NextFile(DurableFiles[file_i], "error")
    /\ UNCHANGED <<scenario, sched_vars, query_vars, sweep_now, file_age,
                   sweeps, sweep_files>>

\* The list is exhausted: time.sleep(86400).  A day is let pass once the
\* scheduler thread has ended; while it runs its own sleeps carry the clock.
DaySleep ==
    /\ kpc = "exists"
    /\ file_i > Len(DurableFiles)
    /\ pc = "dead"
    /\ now' = now + DaySecs
    /\ sweeps' = sweeps + 1
    /\ kpc' = "now"
    /\ UNCHANGED <<scenario, files, pc, loop_i, hour_start, cycle_start,
                   cycle_duration, elapsed, predicted_temp, avg_temp,
                   start_time, temperatures, cycle_count, sensor_data,
                   cycle_data, device_active, ser_out, csv, appended,
                   last_call, cycle_evals, cycle_sleep, hour_sleep, ctl_phase,
                   link_failed, link_seen, disk_failed, query_vars, sweep_now,
                   file_i, file_age, sweep_log, sweep_files>>

\* ---------------------------------------------------------- specification
Next ==
    \/ HourStart
    \/ CycleStart
    \/ SampleTick
    \/ SensorFault
    \/ WindowEnd
    \/ WindowWrite
    \/ WindowWriteFail
    \/ AssignSensorData
    \/ AppendRecord
    \/ CycleWrite
    \/ CycleWriteFail
    \/ CycleEvaluate
    \/ CyclePad
    \/ HourPad
    \/ QueryCycle
    \/ QueryAvgTest
    \/ QueryAvg
    \/ QueryPredicted
    \/ QueryHistory
    \/ SweepStart
    \/ SweepExists
    \/ SweepAge
    \/ SweepRemove
    \/ SweepRemoveFail
    \/ DaySleep

Spec == Init /\ [][Next]_vars

\* ------------------------------------------------- the scheduler alone
\* The scheduler thread with its sensor and its link, on a file system
\* whose writes succeed.  The thread is a started daemon thread and each of
\* its steps ends: the serial read has timeout = 1, the sleeps are finite,
\* so a step that can be taken is taken.
LiveScenarios == {"ctl", "hour"}

InitLive == Init /\ scenario \in LiveScenarios

NextLive ==
    \/ HourStart
    \/ CycleStart
    \/ SampleTick
    \/ SensorFault
    \/ WindowEnd
    \/ WindowWrite
    \/ AssignSensorData
    \/ AppendRecord
    \/ CycleWrite
    \/ CycleEvaluate
    \/ CyclePad
    \/ HourPad

SpecLive == InitLive /\ [][NextLive]_vars /\ WF_vars(NextLive)

\* --------------------------------------------------- the forecaster alone
\* The windows handed to predict_temperature: every list of at most
\* MaxSamples readings between 0 and MaxReading.
Windows == UNION {[1..n -> 0..MaxReading] : n \in 0..MaxSamples}

\* The scheduler at line 142 of its first cycle, with the window w gathered
\* and its row written.
InitForecast ==
    \E w \in Windows :
        /\ scenario = "hour"
        /\ files = [csv |-> [exists |-> TRUE, mtime |-> WindowSecs,
                             header |-> TRUE],
                    log |-> [exists |-> TRUE, mtime |-> 0]]
        /\ now = WindowSecs
        /\ pc = "record"
        /\ loop_i = 1
        /\ hour_start = 0
        /\ cycle_start = 0
        /\ cycle_duration = 0
        /\ elapsed = 0
        /\ predicted_temp = Zero
        /\ avg_temp = Zero
        /\ start_time = 0
        /\ temperatures = w
        /\ cycle_count = 1
        /\ sensor_data = w
        /\ cycle_data = <<>>
        /\ device_active = FALSE
        /\ ser_out = <<>>
        /\ csv = << <<WindowSecs, 1, Fmt2(MeanOrZero(w)), <<>>, "No">> >>
        /\ appended = csv
        /\ last_call = [NoCall EXCEPT !.called = (w # <<>>)]
        /\ cycle_evals = [k \in 1..Len(w) |-> FALSE]
        /\ cycle_sleep = NoSleep
        /\ hour_sleep = NoSleep
        /\ ctl_phase = IF w = <<>> THEN "start" ELSE "low"
        /\ link_failed = FALSE
        /\ link_seen = {}
        /\ disk_failed = FALSE
        /\ qpc = "idle"
        /\ resp = NoResp
        /\ kpc = "now"
        /\ sweep_now = 0
        /\ file_i = 1
        /\ file_age = 0
        /\ sweeps = 0
        /\ sweep_log = <<>>
        /\ sweep_files = files

NextForecast == AppendRecord

SpecForecast == InitForecast /\ [][NextForecast]_vars


\* ----------------------------------------------------------------- claims

\* C1: a call of notify_nodemcu writes a command exactly when the evaluated
\* condition differs from the actuator state the previous evaluation left
\* (calls whose write raises aside), and the link never receives the same
\* command twice in a row, whatever it answers.
C1_Debounce ==
    /\ (last_call.called /\ last_call.link # "write_err")
          => ((last_call.wrote # <<>>)
                <=> (last_call.exceeded # last_call.before))
    /\ \A k \in 1..(Len(ser_out) - 1) : ser_out[k] # ser_out[k + 1]

\* C2: once the evaluated conditions have been false, then true for one
\* stretch, then false again, and the link has raised no error, the commands
\* written in the whole run are one THRESHOLD_EXCEEDED followed by one
\* RESET_DEVICE.
C2_OneActivateOneReset ==
    (ctl_phase = "back" /\ ~link_failed)
        => ser_out = <<THRESHOLD_EXCEEDED, RESET_DEVICE>>

\* C3: cycle_data is gapless: its k-th record has cycle k, so the first has
\* cycle 1 and each later one the previous cycle plus 1.
C3_GaplessHistory ==
    \A k \in 1..Len(cycle_data) : cycle_data[k].cycle = k

\* C3 witness: a history that has crossed the hour boundary and holds the
\* record of a window emptied by a sensor fault.
C3_HistoryAcrossHour ==
    /\ Len(cycle_data) > CyclesPerHour
    /\ \E k \in 1..Len(cycle_data) : cycle_data[k].avg_temp = Zero
    /\ \E k \in 1..Len(cycle_data) : cycle_data[k].avg_temp # Zero

\* C4 as stated: a status query whose reads all fall after the N-th record was
\* appended and before the next one is (N >= 1) returns a history of length N,
\* cycle = N, and latest_predicted equal to the N-th record's prediction.
C4_StatusBetweenAppends ==
    (/\ qpc = "done"
     /\ resp.len_at_start >= 1
     /\ Len(resp.history) = resp.len_at_start)
        => /\ resp.cycle = resp.len_at_start
           /\ resp.latest_predicted
                 = cycle_data[resp.len_at_start].predicted_temp

\* C4 amended: a status query whose reads all fall after the N-th record was
\* appended and before cycle N + 1 starts (N >= 1) returns a history of
\* length N, cycle = N, and latest_predicted equal to the N-th record's
\* prediction.
C4_StatusBetweenCycles ==
    (/\ qpc = "done"
     /\ resp.len_at_start >= 1
     /\ resp.count_at_end = resp.len_at_start)
        => /\ Len(resp.history) = resp.len_at_start
           /\ resp.cycle = resp.len_at_start
           /\ resp.latest_predicted
                 = cycle_data[resp.len_at_start].predicted_temp

\* C4 witness: a query answered between the third cycle and the fourth, the
\* third prediction differing from the first.
C4_StatusAfterThree ==
    /\ qpc = "done"
    /\ resp.len_at_start = 3
    /\ resp.count_at_end = 3
    /\ resp.latest_predicted = cycle_data[3].predicted_temp
    /\ cycle_data[3].predicted_temp # cycle_data[1].predicted_temp

\* C5: a gathering window goes on sampling after a sensor fault: the
\* sampling loop is only left once 600 s have passed since start_time.
C5_WindowRunsToBound ==
    pc = "summary" => now - start_time >= WindowSecs

\* C6: a failed durable write does not stop the scheduler thread.
C6_SchedulerSurvivesDiskFault ==
    disk_failed => pc # "dead"

\* C7: whenever no cycle is in progress, also after a durable write has
\* failed, the cycles recorded in cycle_data are the cycles with a
\* completed-cycle row in the durable log.
C7_SinksAgree ==
    pc \in {"for", "while", "dead"}
        => {cycle_data[k].cycle : k \in 1..Len(cycle_data)}
             = {csv[k][2] : k \in {j \in 1..Len(csv) : csv[j][5] = ""}}

\* C8: no cycle-level sleep is negative; after the padding step of a cycle
\* that took less than 600 s the sleep made was the remainder and 600 s have
\* passed since cycle_start; after one that took 600 s or more no sleep was
\* made and no time has passed since the duration was measured.
C8_CyclePadding ==
    /\ cycle_sleep.secs >= 0
    /\ (pc = "for" /\ loop_i >= 1)
          => IF cycle_duration < 600
             THEN /\ cycle_sleep = [called |-> TRUE,
                                    secs |-> 600 - cycle_duration]
                  /\ now - cycle_start = 600
             ELSE /\ ~cycle_sleep.called
                  /\ now - cycle_start = cycle_duration

\* C8 witness: in one hour, a cycle that overran 600 s followed by a cycle
\* that was padded.
C8_OverrunThenPadded ==
    /\ pc = "for"
    /\ loop_i = 2
    /\ cycle_sleep.called
    /\ cycle_sleep.secs > 0
    /\ now - hour_start > 2 * 600

\* C9: the for loop is left only when cycle_count is a multiple of 6; no
\* hour-level sleep is negative, and one is made only when less than 3600 s
\* had elapsed, for the remainder.
C9_HourPadding ==
    /\ hour_sleep.secs >= 0
    /\ hour_sleep.called => elapsed < 3600
    /\ (pc = "while" /\ cycle_count > 0)
          => /\ cycle_count % 6 = 0
             /\ loop_i = 6
             /\ IF elapsed < 3600
                THEN /\ hour_sleep = [called |-> TRUE, secs |-> 3600 - elapsed]
                     /\ now - hour_start = 3600
                ELSE /\ ~hour_sleep.called
                     /\ now - hour_start = elapsed

\* C9 witness: the end of an hour of six cycles that lasted more than 3600 s.
C9_HourOverrun ==
    /\ pc = "while"
    /\ cycle_count = 6
    /\ elapsed > 3600

\* C10: after a call with exceeded = true made while device_active was false
\* and whose write succeeded, one THRESHOLD_EXCEEDED has been written and
\* device_active is true.
C10_ActivateSetsActive ==
    (/\ last_call.called
     /\ last_call.exceeded
     /\ ~last_call.before
     /\ last_call.link # "write_err")
        => /\ last_call.wrote = <<THRESHOLD_EXCEEDED>>
           /\ device_active

\* C11: a call with exceeded = false made while device_active was true and
\* whose write succeeded has written exactly one RESET_DEVICE and left
\* device_active false, whatever the response; a call with exceeded and
\* device_active equal has written nothing, read nothing and left
\* device_active as it was.
C11_ResetAndNoOps ==
    last_call.called =>
        /\ (/\ ~last_call.exceeded
            /\ last_call.before
            /\ last_call.link # "write_err")
               => /\ last_call.wrote = <<RESET_DEVICE>>
                  /\ last_call.read
                  /\ ~device_active
        /\ (last_call.exceeded = last_call.before)
               => /\ last_call.wrote = <<>>
                  /\ ~last_call.read
                  /\ device_active = last_call.before

\* A reset answered by the device, in the tick after the activation.
C11_ResetAnswered ==
    /\ last_call.called
    /\ ~last_call.exceeded
    /\ last_call.before
    /\ last_call.link = "reply"
    /\ ~device_active
    /\ ser_out = <<THRESHOLD_EXCEEDED, RESET_DEVICE>>
    /\ Len(temperatures) = 2

\* C12: no error of the link leaves notify_nodemcu, and none ends the
\* scheduler thread; after an error raised by the write device_active is as
\* before the call and nothing went out; after an error raised while
\* reading the response device_active is true when THRESHOLD_EXCEEDED was
\* sent and false when RESET_DEVICE was sent.
C12_LinkErrorsCaught ==
    /\ (link_failed /\ ~disk_failed) => pc # "dead"
    /\ last_call.called =>
        /\ ~last_call.raised
        /\ last_call.link = "write_err"
               => /\ device_active = last_call.before
                  /\ last_call.wrote = <<>>
        /\ last_call.link = "read_err"
               => /\ device_active = last_call.exceeded
                  /\ last_call.wrote =
                        <<IF last_call.exceeded THEN THRESHOLD_EXCEEDED
                          ELSE RESET_DEVICE>>

\* The cycle went on to its padding after a write error on the first
\* command and a read error on a later one.
C12_BothErrorsSurvived ==
    /\ pc = "pad"
    /\ last_call.link = "read_err"
    /\ last_call.exceeded
    /\ device_active
    /\ ser_out = <<THRESHOLD_EXCEEDED>>
    /\ Len(cycle_evals) = 3
    /\ cycle_evals[1]

\* C13: on an empty sample list predict_temperature returns 0.0 and the
\* scheduler goes on: the record of the cycle is appended with prediction 0.
C13_EmptyForecastIsZero ==
    (pc = "log" /\ temperatures = <<>>)
        => /\ predicted_temp = Zero
           /\ predict_temperature(<<>>) = Zero
           /\ cycle_data = <<[cycle |-> 1, avg_temp |-> Zero,
                              predicted_temp |-> Zero]>>

\* The forecast of an empty window has been recorded.
C13_EmptyForecastRecorded ==
    /\ pc = "log"
    /\ temperatures = <<>>
    /\ Len(cycle_data) = 1
    /\ cycle_data[1].predicted_temp = Zero

\* C14: on a single-sample list predict_temperature returns the fallback
\* 0.0, not the value of the sample.
C14_SingleSampleFallback ==
    (pc = "log" /\ Len(temperatures) = 1) => predicted_temp = Zero

\* A window whose samples lie on one line: each next sample is larger than
\* the one before by the same step.
IsLinear(w) ==
    \A k \in 2..Len(w) : w[k] - w[k - 1] = w[2] - w[1]

\* C15: on a linear window of n >= 2 samples with first sample a and step b
\* predict_temperature returns a + b * (n + 600).
C15_LinearExtrapolation ==
    (pc = "log" /\ Len(temperatures) >= 2 /\ IsLinear(temperatures))
        => predicted_temp =
              Rat(temperatures[1]
                    + (temperatures[2] - temperatures[1])
                        * (Len(temperatures) + 600), 1)

\* The forecast of [1, 2, 3, 4, 5] is 606.
C15_UnitRampIs606 ==
    /\ pc = "log"
    /\ temperatures = <<1, 2, 3, 4, 5>>
    /\ predicted_temp = [num |-> 606, den |-> 1]

\* C16: every response of get_data is a snapshot of one moment: its
\* latest_predicted is the predicted_temp of the last record of the history
\* it returns (0 on an empty history), and, when the scheduler was between
\* two cycles for the whole of the query, its current_avg is the avg_temp
\* of that same last record (0 on an empty history).
C16_ConsistentSnapshot ==
    qpc = "done" =>
        /\ resp.latest_predicted = LatestPredicted(resp.history)
        /\ resp.count_at_end = resp.len_at_start
               => resp.current_avg =
                    IF resp.history = <<>> THEN Zero
                    ELSE resp.history[Len(resp.history)].avg_temp

\* Age in seconds of a file when the current sweep began.
AgeAtSweepStart(f) == sweep_now - sweep_files[f].mtime

\* C17: a sweep deletes each existing file that was more than 30 days old
\* when the sweep began, unless the deletion raised, and keeps each file
\* that was 30 days old or less; after a deletion error the sweep goes on
\* to the other file.  Stated of the sweeps made once the scheduler thread
\* has ended, when no other thread writes the files during a sweep.
C17_SweepDeletesOldFiles ==
    (sweeps >= 1 /\ kpc # "now") =>
        \A k \in 1..Len(sweep_log) :
            LET f == sweep_log[k].file
            IN  /\ f = DurableFiles[k]
                /\ sweep_files[f].exists =>
                     IF AgeAtSweepStart(f) > 30 * 86400
                     THEN sweep_log[k].outcome \in {"removed", "error"}
                     ELSE sweep_log[k].outcome = "kept"

\* C18: with bounded sensor and link calls and successful durable writes,
\* every cycle that starts leads to the point where its record has been
\* appended and its padding is due, and, within the cycles observed, the
\* end of a cycle leads to the start of the next one.
C18_CyclesComplete ==
    /\ (pc = "sample") ~> (pc = "pad" /\ Len(cycle_data) = cycle_count)
    /\ (pc = "pad" /\ cycle_count < Horizon(scenario)) ~> (pc = "sample")

\* The cycle after one whose window was left empty by a sensor fault has
\* started, and the empty window has its record.
C18_NextCycleAfterEmptyWindow ==
    /\ cycle_count = 2
    /\ pc = "sample"
    /\ cycle_data = <<[cycle |-> 1, avg_temp |-> Zero,
                       predicted_temp |-> Zero]>>

\* The conditions on the samples of the window gathered so far.
SampleConditions == [k \in 1..Len(temperatures) |-> temperatures[k] > 35]

\* C19: within a cycle the controller has been evaluated once for each
\* sample appended to the window, in order and on that sample's value; once
\* the cycle's evaluation on the prediction has been made, and until the
\* next cycle starts, there is exactly one more evaluation, made on the
\* predicted value after the forecast and before the padding sleep.
C19_EvaluationsPerCycle ==
    /\ pc \in {"sample", "summary", "assign", "record", "log", "evaluate",
               "dead"}
          => cycle_evals = SampleConditions
    /\ (pc \in {"pad", "for", "while"} /\ cycle_count > 0)
          => /\ cycle_evals = Append(SampleConditions, Exceeds(predicted_temp))
             /\ predicted_temp = predict_temperature(temperatures)

\* A cycle at its padding whose window <<30, 36>> has its average below
\* the threshold and its prediction above it.
C19_ForecastAloneExceeds ==
    /\ pc = "pad"
    /\ temperatures = <<30, 36>>
    /\ ~Exceeds(avg_temp)
    /\ cycle_evals = <<FALSE, TRUE, TRUE>>

\* The average of the window of cycle c: that of its record, or of the
\* window in hand while the record is not yet appended.
AvgOfCycle(c) ==
    IF c <= Len(cycle_data) THEN cycle_data[c].avg_temp
    ELSE MeanOrZero(temperatures)

\* The rows cycle_count cycles have appended when the scheduler is at pc.
RowsDue ==
    IF cycle_count = 0 THEN 0
    ELSE 2 * (cycle_count - 1)
           + (CASE pc \in {"sample", "summary"} -> 0
                [] pc \in {"assign", "record", "log"} -> 1
                [] OTHER -> 2)

\* C20: while all durable writes succeed, the rows handed to the CSV writer
\* are two per cycle, cycle n before cycle n + 1: first the intra-window
\* row (cycle, average, empty prediction, "Yes" exactly when the average is
\* above 35.0, else "No"), then the completed-cycle row (cycle, the same
\* average, the prediction, empty breach flag).
C20_TwoRowsPerCycle ==
    ~disk_failed =>
        /\ Len(appended) = RowsDue
        /\ \A k \in 1..Len(appended) :
             LET c == (k + 1) \div 2
                 row == appended[k]
             IN  /\ row[2] = c
                 /\ row[3] = Fmt2(AvgOfCycle(c))
                 /\ IF k % 2 = 1
                    THEN /\ row[4] = <<>>
                         /\ row[5] = IF AvgOfCycle(c).num
                                          > 35 * AvgOfCycle(c).den
                                      THEN "Yes" ELSE "No"
                    ELSE /\ row[4] = <<Fmt2(cycle_data[c].predicted_temp)>>
                         /\ row[5] = ""

\* Two cycles have written their four rows: the first window's average was
\* above the threshold, the second's was not.
C20_FourRows ==
    /\ ~disk_failed
    /\ pc = "pad"
    /\ Len(appended) = 4
    /\ appended[1][5] = "Yes"
    /\ appended[3][5] = "No"
    /\ appended[3][3] = 3300
    /\ appended[4][5] = ""

\* C21: while every command sent has been answered by a non-empty response
\* line and the link has raised no error, device_active is false after
\* every call, every call with exceeded = true has written
\* THRESHOLD_EXCEEDED again, and no RESET_DEVICE has been written, also
\* after the evaluated value has dropped back.
C21_AlwaysAnsweredNeverResets ==
    link_seen \subseteq {"reply"} =>
        /\ ~device_active
        /\ (last_call.called /\ last_call.exceeded)
              => last_call.wrote = <<THRESHOLD_EXCEEDED>>
        /\ (last_call.called /\ ~last_call.exceeded)
              => last_call.wrote = <<>>
        /\ \A k \in 1..Len(ser_out) : ser_out[k] = THRESHOLD_EXCEEDED

\* Two consecutive evaluations above the threshold each sent
\* THRESHOLD_EXCEEDED and were answered; the value then dropped and nothing
\* was sent.
C21_RepeatedActivation ==
    /\ link_seen = {"reply"}
    /\ ser_out = <<THRESHOLD_EXCEEDED, THRESHOLD_EXCEEDED>>
    /\ ctl_phase = "back"
    /\ last_call.called
    /\ ~last_call.exceeded

\* C22: while every response read has been empty and the link has raised
\* no error, the commands written alternate THRESHOLD_EXCEEDED,
\* RESET_DEVICE, ... starting with THRESHOLD_EXCEEDED, and after every
\* evaluation device_active is true exactly when the evaluated value was
\* above the threshold.
C22_StrictAlternation ==
    link_seen \subseteq {"timeout"} =>
        /\ \A k \in 1..Len(ser_out) :
              ser_out[k] = IF k % 2 = 1 THEN THRESHOLD_EXCEEDED
                           ELSE RESET_DEVICE
        /\ last_call.called => (device_active <=> last_call.exceeded)

\* The device has been activated, reset and activated again on a link that
\* never answers.
C22_ThirdCommand ==
    /\ link_seen = {"timeout"}
    /\ ser_out = <<THRESHOLD_EXCEEDED, RESET_DEVICE, THRESHOLD_EXCEEDED>>
    /\ device_active
    /\ last_call.exceeded

\* The cycle that has started has no record yet: the scheduler is between
\* the increment of cycle_count and the append, or it ended there, on the
\* write of the window's row.
RecordPending ==
    \/ pc \in {"sample", "summary", "assign", "record"}
    \/ pc = "dead" /\ Len(appended) % 2 = 0

\* C23: cycle_count minus the length of cycle_data is 1 from the start of a
\* cycle until its record is appended and 0 otherwise, also before the
\* first cycle; a status query whose reads all fall in that interval
\* reports a cycle number one greater than the length of its history.
C23_CountLeadsHistoryByOne ==
    /\ cycle_count - Len(cycle_data) = IF RecordPending THEN 1 ELSE 0
    /\ (qpc = "done" /\ RecordPending /\ resp.cycle = cycle_count)
          => resp.cycle = Len(resp.history) + 1

\* A status query answered while the third cycle was gathering its window.
C23_QueryDuringWindow ==
    /\ qpc = "done"
    /\ pc = "sample"
    /\ resp.cycle = 3
    /\ Len(resp.history) = 2
    /\ resp.len_at_start = 2
    /\ cycle_count = 3

\* C24: a cycle whose window collected no sample goes on to its end: the
\* window's row has average 0.00 and breach "No", the record has avg_temp 0
\* and predicted_temp 0.0, and the end-of-cycle evaluation is made with
\* exceeded = false, writing RESET_DEVICE when device_active was true and
\* the write succeeds.
C24_EmptyWindowCycle ==
    (temperatures = <<>> /\ ~disk_failed) =>
        /\ pc \in {"assign", "record", "log", "evaluate", "pad"}
              => LET row == appended[2 * cycle_count - 1]
                 IN  /\ row[2] = cycle_count
                     /\ row[3] = 0
                     /\ row[4] = <<>>
                     /\ row[5] = "No"
        /\ pc \in {"log", "evaluate", "pad"}
              => cycle_data[cycle_count] =
                    [cycle |-> cycle_count, avg_temp |-> Zero,
                     predicted_temp |-> Zero]
        /\ pc = "pad"
              => /\ last_call.called
                 /\ ~last_call.exceeded
                 /\ cycle_evals = <<FALSE>>
                 /\ (last_call.before /\ last_call.link # "write_err")
                       => /\ last_call.wrote = <<RESET_DEVICE>>
                          /\ ~device_active
                 /\ ~last_call.before => last_call.wrote = <<>>

\* The cycle after one that left the device active lost its sensor on the
\* first tick, and its end-of-cycle evaluation reset the device.
C24_EmptyWindowResets ==
    /\ pc = "pad"
    /\ temperatures = <<>>
    /\ cycle_count = 2
    /\ last_call.before
    /\ last_call.wrote = <<RESET_DEVICE>>
    /\ ser_out = <<THRESHOLD_EXCEEDED, RESET_DEVICE>>
    /\ Len(appended) = 4

\* C25: whenever the CSV file exists its first row is the header row and
\* it holds every row the scheduler has appended, however the steps of the
\* retention thread interleave with the appends.
C25_HeaderAndRowsKept ==
    files.csv.exists =>
        /\ files.csv.header
        /\ csv = appended

====
